---- MODULE Spec2Model ----
(***************************************************************************)
(* Model of the compatibility scorer of app/services/user_matching.py.     *)
(*                                                                         *)
(* Numbers.  A Python list of numbers is [isInt, vals]: the element i is   *)
(* the int vals[i] when isInt, and the float vals[i]/2 otherwise (a list   *)
(* holding at least one float makes a float64 array).  A numpy array is    *)
(* [dtype, num, den]: element i is the rational num[i]/den, den > 0.       *)
(* A scalar score is [num, rad, eps, nan]: the real num/sqrt(rad) moved by *)
(* eps floating-point roundings (eps in -1..1, an amount smaller than any  *)
(* distance between two distinct exact values of the model).               *)
(***************************************************************************)
EXTENDS Integers, Sequences, FiniteSets, TLC

\* ---------------------------------------------------------------- bounds
MaxLen == 3
MaxVal == 1
MaxTarget == 5

\* ------------------------------------------------------- program constants
MinDims == 5

\* ---------------------------------------------------------------- helpers
RECURSIVE SumSeq(_)
SumSeq(s) == IF s = <<>> THEN 0 ELSE Head(s) + SumSeq(Tail(s))

Dot(a, b) == SumSeq([i \in 1..Len(a) |-> a[i] * b[i]])

Max2(a, b) == IF a >= b THEN a ELSE b

SeqMin(s) == CHOOSE x \in {s[i] : i \in 1..Len(s)} : \A j \in 1..Len(s) : x <= s[j]

SeqMax(s) == CHOOSE x \in {s[i] : i \in 1..Len(s)} : \A j \in 1..Len(s) : x >= s[j]

Fill(n, v) == [i \in 1..n |-> v]

\* np.array(list): an all-int list gives an integer array, anything else
\* (the empty list included) a float64 array.
NpArray(list) ==
    [dtype |-> IF list.isInt /\ Len(list.vals) > 0 THEN "int" ELSE "float",
     num   |-> list.vals,
     den   |-> IF list.isInt THEN 1 ELSE 2]

\* np.full_like(a, 0.5): the fill value is cast to a's dtype, and the cast of
\* 0.5 to an integer dtype truncates it to 0.
FullLikeHalf(a) ==
    IF a.dtype = "int"
    THEN [dtype |-> "int", num |-> Fill(Len(a.num), 0), den |-> 1]
    ELSE [dtype |-> "float", num |-> Fill(Len(a.num), 1), den |-> 2]

\* np.clip(a, 0.0, 1.0) on an array.
ClipArray(a) ==
    [dtype |-> a.dtype,
     num   |-> [i \in 1..Len(a.num) |->
                  IF a.num[i] < 0 THEN 0
                  ELSE IF a.num[i] > a.den THEN a.den ELSE a.num[i]],
     den   |-> a.den]

AllZero(a) == \A i \in 1..Len(a.num) : a.num[i] = 0

\* Outcome of a call that returns an array, or raises.
Returned(a) == [raised |-> "none", value |-> a]
RaisedArr(exc) == [raised |-> exc, value |-> [dtype |-> "float", num |-> <<>>, den |-> 1]]

\* ------------------------------------------------- normalize_psychometrics
normalize_psychometrics(list) ==
    LET a == NpArray(list) IN
    IF Len(a.num) = 0 THEN RaisedArr("IndexError")
    ELSE IF \A i \in 1..Len(a.num) : a.num[i] = a.num[1]
    THEN Returned(FullLikeHalf(a))
    ELSE LET lo == SeqMin(a.num)
             hi == SeqMax(a.num)
         IN IF hi = lo THEN Returned(FullLikeHalf(a))
            ELSE Returned(ClipArray(
                   [dtype |-> "float",
                    num   |-> [i \in 1..Len(a.num) |-> a.num[i] - lo],
                    den   |-> hi - lo]))

\* Mutant: np.interp evaluated at the old sample points.
Interp_OldGrid(a, n) == [dtype |-> "float", num |-> a.num, den |-> a.den]

\* -------------------------------------------------- resample_psychometrics
\* np.interp(x_new, x_old, a) with x_old = linspace(0,1,m), x_new =
\* linspace(0,1,n), m >= 2: the query point j/(n-1) lies in the segment
\* k = floor(j(m-1)/(n-1)) of the input; linspace(0,1,1) is [0].
Interp(a, n) ==
    LET m == Len(a.num) IN
    IF n = 1
    THEN [dtype |-> "float", num |-> <<a.num[1]>>, den |-> a.den]
    ELSE [dtype |-> "float",
          num   |-> [jj \in 1..n |->
                      LET j == jj - 1
                          k == (j * (m - 1)) \div (n - 1)
                          r == j * (m - 1) - k * (n - 1)
                      IN IF k >= m - 1 THEN a.num[m] * (n - 1)
                         ELSE a.num[k + 1] * (n - 1)
                                + (a.num[k + 2] - a.num[k + 1]) * r],
          den   |-> IF n = 0 THEN a.den ELSE a.den * (n - 1)]

\* Mutant: the empty input filled with 0.0 instead of the neutral 0.5.
resample_psychometrics_ZeroFill(a, target_length) ==
    LET current_length == Len(a.num) IN
    IF current_length = target_length THEN a
    ELSE IF current_length = 0
    THEN [dtype |-> "float", num |-> Fill(target_length, 0), den |-> 2]
    ELSE IF current_length = 1
    THEN [dtype |-> a.dtype, num |-> Fill(target_length, a.num[1]), den |-> a.den]
    ELSE Interp(a, target_length)

resample_psychometrics(a, target_length) ==
    LET current_length == Len(a.num) IN
    IF current_length = target_length THEN a
    ELSE IF current_length = 0
    THEN [dtype |-> "float", num |-> Fill(target_length, 1), den |-> 2]
    ELSE IF current_length = 1
    THEN [dtype |-> a.dtype, num |-> Fill(target_length, a.num[1]), den |-> a.den]
    ELSE Interp(a, target_length)

\* ------------------------------------------------------------------ scores
\* Sign of a/b - c/d for a, c >= 0 and b, d > 0, by the Euclidean algorithm
\* (no product of two large numbers is formed).
RECURSIVE CmpFrac(_, _, _, _)
CmpFrac(a, b, c, d) ==
    LET qa == a \div b
        qc == c \div d
        ra == a % b
        rc == c % d
    IN IF qa # qc THEN (IF qa > qc THEN 1 ELSE -1)
       ELSE IF ra = 0 /\ rc = 0 THEN 0
       ELSE IF ra = 0 THEN -1
       ELSE IF rc = 0 THEN 1
       ELSE CmpFrac(d, rc, b, ra)

Exact(n, d) == [num |-> n, rad |-> d * d, eps |-> 0, nan |-> FALSE]
FZero == Exact(0, 1)
FOne == Exact(1, 1)

\* Sign of score - t/TenthDen, for a threshold t >= 0.
TenthDen == 10
CmpTenths(s, t) ==
    IF s.num < 0 THEN -1
    ELSE LET c == CmpFrac(s.num * s.num, s.rad, t * t, TenthDen * TenthDen)
         IN IF c # 0 THEN c ELSE s.eps

\* Mutant: the thresholds compared with > instead of >=.
GeTenths_Strict(s, t) == CmpTenths(s, t) > 0

GeTenths(s, t) == CmpTenths(s, t) >= 0

\* np.isnan(score) or np.isinf(score)
IsNanOrInf(s) == s.nan

\* Mutant: the clamp left out.
Clip_None(s) == s

\* np.clip(score, 0.0, 1.0)
Clip(s) ==
    IF CmpTenths(s, 0) < 0 THEN FZero
    ELSE IF CmpTenths(s, TenthDen) > 0 THEN FOne
    ELSE s

\* ---------------------------------------------------------- interpret_score
interpret_score(score) ==
    IF GeTenths(score, 9) THEN "Exceptionally compatible - Perfect match"
    ELSE IF GeTenths(score, 8) THEN "Highly compatible - Strong match"
    ELSE IF GeTenths(score, 7) THEN "Very compatible - Good match"
    ELSE IF GeTenths(score, 6) THEN "Moderately compatible - Decent match"
    ELSE IF GeTenths(score, 4) THEN "Somewhat compatible - Weak match"
    ELSE IF GeTenths(score, 2) THEN "Low compatibility - Poor match"
    ELSE "Very low compatibility - Minimal match"

\* -------------------------------------------------------- cosine_similarity
\* sklearn.metrics.pairwise.cosine_similarity on two single rows: rows of
\* different lengths raise ValueError; otherwise each row is divided by its
\* norm (a zero norm is replaced by 1, so a zero row gives 0, not NaN) and
\* the dot product is taken.  fp is the rounding of that floating-point
\* computation; a sum of exact zeros is exactly 0.
cosine_similarity(u, v, fp) ==
    IF Len(u.num) # Len(v.num)
    THEN [raised |-> "ValueError", value |-> FZero,
          dims |-> <<Len(u.num), Len(v.num)>>]
    ELSE LET dot == Dot(u.num, v.num)
             nn  == Dot(u.num, u.num) * Dot(v.num, v.num)
         IN [raised |-> "none",
             value  |-> IF nn = 0 \/ dot = 0 THEN FZero
                        ELSE [num |-> dot, rad |-> nn, eps |-> fp, nan |-> FALSE],
             dims   |-> <<Len(u.num), Len(v.num)>>]

\* ------------------------------------------------------------------ topics
\* A string is a sequence of characters; the characters used are the space
\* and the letters of Letters, in alphabetical order.
Letters == <<"a", "b">>

CharRank(c) == IF c = " " THEN 0 ELSE CHOOSE i \in 1..Len(Letters) : Letters[i] = c

\* The whitespace characters of str.strip() and of \s.
IsSpace(c) == c \in {" ", "\n", "\t"}

\* str.strip()
RECURSIVE LStrip(_)
LStrip(s) == IF s # <<>> /\ IsSpace(Head(s)) THEN LStrip(Tail(s)) ELSE s

RECURSIVE RStrip(_)
RStrip(s) ==
    IF s # <<>> /\ IsSpace(s[Len(s)])
    THEN RStrip(SubSeq(s, 1, Len(s) - 1)) ELSE s

strip(s) == RStrip(LStrip(s))

\* [topic.strip() for topic in topics if topic.strip()]
RECURSIVE FilterTopics(_)
FilterTopics(topics) ==
    IF topics = <<>> THEN <<>>
    ELSE IF strip(Head(topics)) = <<>> THEN FilterTopics(Tail(topics))
    ELSE <<strip(Head(topics))>> \o FilterTopics(Tail(topics))

\* " ".join(topics)
RECURSIVE Join(_)
Join(topics) ==
    IF topics = <<>> THEN <<>>
    ELSE IF Len(topics) = 1 THEN Head(topics)
    ELSE Head(topics) \o <<" ">> \o Join(Tail(topics))

\* TfidfVectorizer's default analyzer: the tokens are the maximal runs of two
\* or more word characters (token_pattern (?u)\b\w\w+\b), no stop words.
RECURSIVE Tokenize(_, _)
Tokenize(text, cur) ==
    IF text = <<>> THEN (IF Len(cur) >= 2 THEN <<cur>> ELSE <<>>)
    ELSE IF Head(text) = " "
    THEN (IF Len(cur) >= 2 THEN <<cur>> ELSE <<>>) \o Tokenize(Tail(text), <<>>)
    ELSE Tokenize(Tail(text), Append(cur, Head(text)))

RECURSIVE LexLess(_, _)
LexLess(x, y) ==
    IF y = <<>> THEN FALSE
    ELSE IF x = <<>> THEN TRUE
    ELSE IF Head(x) # Head(y) THEN CharRank(Head(x)) < CharRank(Head(y))
    ELSE LexLess(Tail(x), Tail(y))

\* The vocabulary in sorted order, as TfidfVectorizer indexes its features.
RECURSIVE SortedVocab(_)
SortedVocab(S) ==
    IF S = {} THEN <<>>
    ELSE LET lo == CHOOSE x \in S : \A y \in S \ {x} : LexLess(x, y)
         IN <<lo>> \o SortedVocab(S \ {lo})

Isqrt(n) == CHOOSE r \in 0..n : r * r <= n /\ (r + 1) * (r + 1) > n

\* vectorize_topics: TF-IDF of the one joined document.  With a single
\* document every idf is ln(2/2) + 1 = 1, so the row is the term counts
\* divided by their Euclidean norm (norm='l2'); an empty vocabulary makes
\* fit_transform raise ValueError.  The norm is exact when the sum of the
\* squared counts is a perfect square, as for every topic list of TopicLists.
vectorize_topics(topics) ==
    LET toks   == Tokenize(Join(topics), <<>>)
        vocab  == SortedVocab({toks[i] : i \in 1..Len(toks)})
        counts == [k \in 1..Len(vocab) |->
                     Cardinality({i \in 1..Len(toks) : toks[i] = vocab[k]})]
    IN IF vocab = <<>> THEN RaisedArr("ValueError")
       ELSE Returned([dtype |-> "float", num |-> counts,
                      den |-> Isqrt(Dot(counts, counts))])

\* --------------------------------------------------------- combine_vectors
\* Weights are given in halves: the weight is w / WeightDen.
WeightDen == 2

\* Mutant: the psychometric part placed first.
combine_vectors_PsychFirst(topic_vec, psych_vec, topic_weight, psych_weight) ==
    [dtype |-> "float",
     num   |-> [i \in 1..Len(psych_vec.num) |->
                  psych_weight * psych_vec.num[i] * topic_vec.den]
               \o [i \in 1..Len(topic_vec.num) |->
                  topic_weight * topic_vec.num[i] * psych_vec.den],
     den   |-> WeightDen * topic_vec.den * psych_vec.den]

combine_vectors(topic_vec, psych_vec, topic_weight, psych_weight) ==
    [dtype |-> "float",
     num   |-> [i \in 1..Len(topic_vec.num) |->
                  topic_weight * topic_vec.num[i] * psych_vec.den]
               \o [i \in 1..Len(psych_vec.num) |->
                  psych_weight * psych_vec.num[i] * topic_vec.den],
     den   |-> WeightDen * topic_vec.den * psych_vec.den]

\* ------------------------------------------------------------ fuse_vectors
\* vectorization.fuse_vectors: np.concatenate of the two vectors as given.
fuse_vectors(topic_vector, psychometric_vector) ==
    [dtype |-> IF topic_vector.dtype = "int" /\ psychometric_vector.dtype = "int"
               THEN "int" ELSE "float",
     num   |-> [i \in 1..Len(topic_vector.num) |->
                  topic_vector.num[i] * psychometric_vector.den]
               \o [i \in 1..Len(psychometric_vector.num) |->
                  psychometric_vector.num[i] * topic_vector.den],
     den   |-> topic_vector.den * psychometric_vector.den]

\* --------------------------------------------------- compute_compatibility
\* dims records the lengths of the two vectors handed to cosine_similarity,
\* <<>> when the call returned before reaching it.
Result(score, text) ==
    [raised |-> "none", score |-> score, text |-> text, dims |-> <<>>]
Raise(exc, msg) ==
    [raised |-> exc, score |-> FZero, text |-> msg, dims |-> <<>>]

\* Lines 71-81: the NaN guard, the clamp and the interpretation, applied to
\* what cosine_similarity returned (an exception it raised propagates).
Finish(cos) ==
    IF cos.raised # "none"
    THEN [Raise(cos.raised, "Incompatible dimension") EXCEPT !.dims = cos.dims]
    ELSE IF IsNanOrInf(cos.value)
    THEN [Result(FZero, "Unable to compute compatibility score")
            EXCEPT !.dims = cos.dims]
    ELSE LET score == Clip(cos.value)
         IN [Result(score, interpret_score(score)) EXCEPT !.dims = cos.dims]

\* Lines 44-69: the score of the two resampled profiles, with or without
\* the topic vector.  topics is [given, items]; given is FALSE for None.
ScoreOf(user1_psych, user2_psych, topics, topic_weight, psych_weight, fp) ==
    IF topics.given /\ Len(topics.items) > 0
    THEN LET valid == FilterTopics(topics.items) IN
         IF valid = <<>>
         THEN Finish(cosine_similarity(user1_psych, user2_psych, fp))
         ELSE LET tv == vectorize_topics(valid) IN
              IF tv.raised # "none"
              THEN Raise(tv.raised, "empty vocabulary")
              ELSE IF AllZero(tv.value)
              THEN Finish(cosine_similarity(user1_psych, user2_psych, fp))
              ELSE Finish(cosine_similarity(
                     combine_vectors(tv.value, user1_psych, topic_weight, psych_weight),
                     combine_vectors(tv.value, user2_psych, topic_weight, psych_weight),
                     fp))
    ELSE Finish(cosine_similarity(user1_psych, user2_psych, fp))

\* Mutant: the all-zero guard looks at the first user only.
GuardsThenScore_FirstOnly(user1_psych, user2_psych, topics, topic_weight, psych_weight, fp) ==
    IF AllZero(user1_psych)
    THEN Result(FZero, "No psychometric data available")
    ELSE IF topic_weight < 0 \/ psych_weight < 0
    THEN Raise("ValueError", "Weights must be non-negative")
    ELSE ScoreOf(user1_psych, user2_psych, topics, topic_weight, psych_weight, fp)

\* Lines 36-42: the all-zero guard, then the weight validation.
GuardsThenScore(user1_psych, user2_psych, topics, topic_weight, psych_weight, fp) ==
    IF AllZero(user1_psych) \/ AllZero(user2_psych)
    THEN Result(FZero, "No psychometric data available")
    ELSE IF topic_weight < 0 \/ psych_weight < 0
    THEN Raise("ValueError", "Weights must be non-negative")
    ELSE ScoreOf(user1_psych, user2_psych, topics, topic_weight, psych_weight, fp)

\* Mutant: the common length taken without the floor of MinDims.
MainPath_NoFloor(user1_data, user2_data, topics, topic_weight, psych_weight, fp) ==
    LET n1 == normalize_psychometrics(user1_data.psych).value
        n2 == normalize_psychometrics(user2_data.psych).value
        target_length == Max2(Len(n1.num), Len(n2.num))
    IN GuardsThenScore(resample_psychometrics(n1, target_length),
                       resample_psychometrics(n2, target_length),
                       topics, topic_weight, psych_weight, fp)

\* Lines 27-42 onwards: normalization, resampling, guards and score.
MainPath(user1_data, user2_data, topics, topic_weight, psych_weight, fp) ==
    LET n1 == normalize_psychometrics(user1_data.psych).value
        n2 == normalize_psychometrics(user2_data.psych).value
        target_length == Max2(Max2(Len(n1.num), Len(n2.num)), MinDims)
    IN GuardsThenScore(resample_psychometrics(n1, target_length),
                       resample_psychometrics(n2, target_length),
                       topics, topic_weight, psych_weight, fp)

\* Mutant: the identity shortcut placed after the psychometrics lookup.
compute_compatibility_IdAfterLookup(user1_data, user2_data, topics, topic_weight, psych_weight, fp) ==
    IF ~user1_data.has \/ ~user2_data.has
    THEN Raise("ValueError", "Missing psychometric data")
    ELSE IF user1_data.id = user2_data.id
    THEN Result(FOne, "Identical users (perfect match)")
    ELSE IF user1_data.psych.vals = <<>> \/ user2_data.psych.vals = <<>>
    THEN Result(FZero, "No psychometric data available")
    ELSE MainPath(user1_data, user2_data, topics, topic_weight, psych_weight, fp)

\* Mutant: a record without psychometrics read as one with an empty list
\* (user_data.get("psychometrics", [])).
compute_compatibility_GetDefault(user1_data, user2_data, topics, topic_weight, psych_weight, fp) ==
    IF user1_data.id = user2_data.id
    THEN Result(FOne, "Identical users (perfect match)")
    ELSE IF user1_data.psych.vals = <<>> \/ user2_data.psych.vals = <<>>
    THEN Result(FZero, "No psychometric data available")
    ELSE MainPath(user1_data, user2_data, topics, topic_weight, psych_weight, fp)

\* Mutant: the weights validated before the empty-profile check.
compute_compatibility_WeightsFirst(user1_data, user2_data, topics, topic_weight, psych_weight, fp) ==
    IF user1_data.id = user2_data.id
    THEN Result(FOne, "Identical users (perfect match)")
    ELSE IF ~user1_data.has \/ ~user2_data.has
    THEN Raise("ValueError", "Missing psychometric data")
    ELSE IF topic_weight < 0 \/ psych_weight < 0
    THEN Raise("ValueError", "Weights must be non-negative")
    ELSE IF user1_data.psych.vals = <<>> \/ user2_data.psych.vals = <<>>
    THEN Result(FZero, "No psychometric data available")
    ELSE MainPath(user1_data, user2_data, topics, topic_weight, psych_weight, fp)

\* A user record is [id, has, psych]: has is FALSE when the record carries no
\* "psychometrics" key.
compute_compatibility(user1_data, user2_data, topics, topic_weight, psych_weight, fp) ==
    IF user1_data.id = user2_data.id
    THEN Result(FOne, "Identical users (perfect match)")
    ELSE IF ~user1_data.has \/ ~user2_data.has
    THEN Raise("ValueError", "Missing psychometric data")
    ELSE IF user1_data.psych.vals = <<>> \/ user2_data.psych.vals = <<>>
    THEN Result(FZero, "No psychometric data available")
    ELSE MainPath(user1_data, user2_data, topics, topic_weight, psych_weight, fp)

\* ------------------------------------------------------------------ inputs
RECURSIVE SeqsUpTo(_, _)
SeqsUpTo(S, n) ==
    IF n = 0 THEN {<<>>}
    ELSE LET shorter == SeqsUpTo(S, n - 1)
         IN shorter \cup {Append(q, x) : q \in {t \in shorter : Len(t) = n - 1}, x \in S}

IntList(v) == [isInt |-> TRUE, vals |-> v]
FloatList(v) == [isInt |-> FALSE, vals |-> v]

\* The psychometric lists: every list of at most MaxLen numbers, whole
\* numbers 0..MaxVal or floats 0, 0.5, .. MaxVal/2; the empty list once.
Profiles ==
    {IntList(v) : v \in SeqsUpTo(0..MaxVal, MaxLen) \ {<<>>}}
        \cup {FloatList(v) : v \in SeqsUpTo(0..MaxVal, MaxLen)}

\* The second user's lists: one of each shape, among them the five-value
\* lists of the tests and a list longer than MinDims.
OtherProfiles ==
    { FloatList(<<>>),
      IntList(<<3, 3, 3>>),
      FloatList(<<1>>),
      FloatList(<<1, 1>>),
      IntList(<<0, 1>>),
      FloatList(<<2, 0, 1>>),
      IntList(<<3, 4, 5, 6, 7>>),
      IntList(<<0, 2, 1, 0, 2, 1>>) }

User(i, p) == [id |-> i, has |-> TRUE, psych |-> p]
UserWithout(i) == [id |-> i, has |-> FALSE, psych |-> FloatList(<<>>)]

Users1 == {User(1, p) : p \in Profiles} \cup {UserWithout(1)}
Users2 == {User(i, p) : i \in {1, 2}, p \in OtherProfiles}
              \cup {UserWithout(i) : i \in {1, 2}}

None == [given |-> FALSE, items |-> <<>>]
List(items) == [given |-> TRUE, items |-> items]

TopicLists ==
    { None,
      List(<<>>),
      List(<< <<" ">> >>),
      List(<< <<" ", "a", "b">>, <<>> >>),
      List(<< <<"a">> >>),
      List(<< <<"a", "b", " ", "b", "a">>, <<"a", "a", " ", "b", "b">> >>) }

\* (topic_weight, psych_weight) in halves; <<1, 2>> is the default (0.5, 1.0).
Weights == { <<1, 2>>, <<-1, 2>>, <<1, -1>>, <<1, 0>> }

Rounding == {-1, 0, 1}

\* The scores handed to interpret_score: the multiples of 1/(TenthDen*GridSub)
\* from -0.2 to 1.2, each also one rounding below and above.
GridSub == 2
GridScores ==
    {[num |-> k, rad |-> (TenthDen * GridSub) * (TenthDen * GridSub),
      eps |-> e, nan |-> FALSE] :
        k \in (-2 * GridSub)..((TenthDen + 2) * GridSub), e \in Rounding}

\* ------------------------------------------------------- generate_summary
\* topic_extraction.py.  Strings are sequences of characters.
UpperCase ==
    <<"A", "B", "C", "D", "E", "F", "G", "H", "I", "J", "K", "L", "M", "N",
      "O", "P", "Q", "R", "S", "T", "U", "V", "W", "X", "Y", "Z">>
LowerCase ==
    <<"a", "b", "c", "d", "e", "f", "g", "h", "i", "j", "k", "l", "m", "n",
      "o", "p", "q", "r", "s", "t", "u", "v", "w", "x", "y", "z">>
Digits == <<"0", "1", "2", "3", "4", "5", "6", "7", "8", "9">>

Chars(s) == {s[i] : i \in 1..Len(s)}

\* \w of the regular expressions: letters, digits and the underscore.
WordChars == Chars(UpperCase) \cup Chars(LowerCase) \cup Chars(Digits) \cup {"_"}

\* Mutant: the split on runs of '.' and '!' only.
Terminators_NoQuestion == {".", "!"}

\* [.!?]
Terminators == {".", "!", "?"}

\* str.lower()
LowerChar(c) ==
    IF c \in Chars(UpperCase)
    THEN LowerCase[CHOOSE i \in 1..Len(UpperCase) : UpperCase[i] = c]
    ELSE c

lower(s) == [i \in 1..Len(s) |-> LowerChar(s[i])]

\* sub in s
Contains(s, sub) ==
    \E i \in 0..(Len(s) - Len(sub)) : \A k \in 1..Len(sub) : s[i + k] = sub[k]

\* s.endswith(suffix)
EndsWith(s, suffix) ==
    /\ Len(suffix) <= Len(s)
    /\ \A k \in 1..Len(suffix) : s[Len(s) - Len(suffix) + k] = suffix[k]

\* re.split(r'[.!?]+', transcript): the pieces between the runs of
\* terminators, the empty pieces at either end included.
\* A piece starts at the first character and after each run of terminators
\* (at Len + 1 when the text ends with one), and runs up to the next
\* terminator.
PieceStarts(text) ==
    {i \in 1..(Len(text) + 1) :
        \/ i = 1
        \/ /\ text[i - 1] \in Terminators
           /\ (i = Len(text) + 1 \/ text[i] \notin Terminators)}

PieceFrom(text, i) ==
    LET end == CHOOSE j \in i..(Len(text) + 1) :
                   /\ j = Len(text) + 1 \/ text[j] \in Terminators
                   /\ \A m \in i..(j - 1) : text[m] \notin Terminators
    IN SubSeq(text, i, end - 1)

re_split(transcript) ==
    LET starts == PieceStarts(transcript)
        Nth(k) == CHOOSE i \in starts :
                      Cardinality({j \in starts : j < i}) = k - 1
    IN [k \in 1..Cardinality(starts) |-> PieceFrom(transcript, Nth(k))]

\* Line 46: the stripped pieces longer than 10 characters.
IsSentence(s) == s # <<>> /\ Len(s) > 10

sentences(transcript) ==
    LET parts == re_split(transcript)
    IN SelectSeq([i \in 1..Len(parts) |-> strip(parts[i])], IsSentence)

\* Line 55: the alternatives of the filler pattern, in its order.
Fillers ==
    << <<"y", "e", "a", "h">>,
       <<"u", "h">>,
       <<"u", "m">>,
       <<"l", "i", "k", "e">>,
       <<"y", "o", "u", " ", "k", "n", "o", "w">>,
       <<"s", "o">>,
       <<"w", "e", "l", "l">> >>

\* \b at the gap before text[i]: a word character on exactly one side.
Boundary(text, i) ==
    (i > 1 /\ text[i - 1] \in WordChars)
        # (i <= Len(text) /\ text[i] \in WordChars)

\* The word matches at text[i], letter case ignored, between two \b.
MatchAt(text, i, word) ==
    /\ i + Len(word) - 1 <= Len(text)
    /\ \A k \in 1..Len(word) : LowerChar(text[i + k - 1]) = word[k]
    /\ Boundary(text, i)
    /\ Boundary(text, i + Len(word))

\* The length of the filler matched at text[i], 0 when there is none.
FillerAt(text, i) ==
    IF \E f \in 1..Len(Fillers) : MatchAt(text, i, Fillers[f])
    THEN LET f == CHOOSE f \in 1..Len(Fillers) :
                    /\ MatchAt(text, i, Fillers[f])
                    /\ \A g \in 1..(f - 1) : ~MatchAt(text, i, Fillers[g])
         IN Len(Fillers[f])
    ELSE 0

\* re.sub(r'\b(yeah|uh|um|like|you know|so|well)\b', '', sentence,
\* flags=re.IGNORECASE): a left-to-right scan that drops each match.
RECURSIVE RemoveFillers(_, _)
RemoveFillers(text, i) ==
    IF \A j \in i..Len(text) : FillerAt(text, j) = 0
    THEN SubSeq(text, i, Len(text))
    ELSE LET j == CHOOSE j \in i..Len(text) :
                    /\ FillerAt(text, j) > 0
                    /\ \A m \in i..(j - 1) : FillerAt(text, m) = 0
         IN SubSeq(text, i, j - 1)
                \o RemoveFillers(text, j + FillerAt(text, j))

\* re.sub(r'\s+', ' ', sentence): each run of whitespace becomes one space,
\* written where the run starts.
CollapseSpaces(text) ==
    LET Kept(i) == ~IsSpace(text[i]) \/ i = 1 \/ ~IsSpace(text[i - 1])
        kept == SelectSeq([i \in 1..Len(text) |-> i], Kept)
    IN [k \in 1..Len(kept) |->
          IF IsSpace(text[kept[k]]) THEN " " ELSE text[kept[k]]]

\* Lines 55-56
clean(sentence) == strip(CollapseSpaces(RemoveFillers(sentence, 1)))

\* Lines 57-58
IsSubstantial(s) == Len(s) > 15

cleaned_sentences(sents) ==
    SelectSeq([i \in 1..Len(sents) |-> clean(sents[i])], IsSubstantial)

\* Mutant: the early exit taken for fewer than 2 entries only.
TooFew_Strict(list) == Len(list) < 2

\* Lines 48 and 60: len(...) <= 2
TooFew(list) == Len(list) <= 2

\* Line 69: the number of topics found in the sentence, case ignored.
topic_matches(sentence, topics) ==
    Cardinality({t \in 1..Len(topics) :
                    Contains(lower(sentence), lower(topics[t]))})

\* Python's true division: a / b raises ZeroDivisionError when b is 0.
TrueDiv(a, b) ==
    IF b = 0 THEN [raised |-> "ZeroDivisionError", num |-> 0, den |-> 1]
    ELSE [raised |-> "none", num |-> a, den |-> b]

\* Mutant: the division by the number of topics without its guard.
topic_score_Unguarded(matches, topics) == TrueDiv(matches, Len(topics))

\* Line 70: the matched fraction of the topics (weighted by 0.4 in score),
\* 0 when the list is empty.
topic_score(matches, topics) ==
    IF Len(topics) > 0 THEN TrueDiv(matches, Len(topics))
    ELSE [raised |-> "none", num |-> 0, den |-> 1]

\* Line 73: len(sentence.split()), the number of runs of non-space characters.
word_count(sentence) ==
    Cardinality({i \in 1..Len(sentence) :
                    /\ ~IsSpace(sentence[i])
                    /\ (i = 1 \/ IsSpace(sentence[i - 1]))})

\* The scores below are in thousandths.
\* Line 74: min(word_count / 50, 1.0) * 0.2
content_density(sentence) ==
    4 * (IF word_count(sentence) < 50 THEN word_count(sentence) ELSE 50)

\* Lines 77-85: i is the 0-based index.  The products by 0.1, 0.8, 0.3 and
\* 0.7 are compared as the exact tenths; for every total up to 40 the
\* floating-point products compare with every index as the exact ones do.
position_score(i, total_sentences) ==
    IF 10 * i < total_sentences THEN 150
    ELSE IF 10 * i > 8 * total_sentences THEN 150
    ELSE IF 3 * total_sentences <= 10 * i /\ 10 * i <= 7 * total_sentences THEN 250
    ELSE 100

\* Mutant: the position taken among the sentences before cleaning.
total_sentences_Original(sents, cleaned) == Len(sents)

\* Line 77: total_sentences = len(cleaned_sentences)
total_sentences(sents, cleaned) == Len(cleaned)

FutureWords ==
    { <<"p", "l", "a", "n">>,
      <<"n", "e", "x", "t">>,
      <<"f", "u", "t", "u", "r", "e">>,
      <<"w", "i", "l", "l">>,
      <<"g", "o", "i", "n", "g", " ", "t", "o">> }

\* Lines 88-94
question_bonus(sentence) == IF "?" \in Chars(sentence) THEN 100 ELSE 0

future_bonus(sentence) ==
    IF "?" \in Chars(sentence) THEN 0
    ELSE IF \E w \in FutureWords : Contains(lower(sentence), w) THEN 100
    ELSE 0

\* Lines 97-102
length_penalty(sentence) ==
    IF Len(sentence) < 30 THEN 100
    ELSE IF Len(sentence) > 300 THEN 50
    ELSE 0

Conjunctions ==
    { <<"a", "n", "d">>,
      <<"b", "u", "t">>,
      <<"s", "o">>,
      <<"b", "e", "c", "a", "u", "s", "e">>,
      <<"t", "h", "e">> }

\* Lines 105-108
incomplete_penalty(sentence) ==
    IF \E w \in Conjunctions : EndsWith(sentence, w) THEN 100 ELSE 0

\* The common denominator of the scores of one call: a score is
\* score / (1000 * ScoreDen(topics)).
ScoreDen(topics) == Max2(Len(topics), 1)

\* The rounding of the floating-point sum of line 111: fp names the one
\* sentence (1-based, signed) whose sum is rounded above (fp > 0) or below
\* (fp < 0) its exact value; 0 means that every sum is exact.
Eps(fp, k) == IF fp = k THEN 1 ELSE IF fp = -k THEN -1 ELSE 0

\* Lines 65-112: the entry (score, sentence, i) of scored_sentences for
\* cleaned[k], k = i + 1, with the position score it was given.
ScoredSentence(sents, cleaned, k, topics, fp) ==
    LET sentence == cleaned[k]
        ts  == topic_score(topic_matches(sentence, topics), topics)
        pos == position_score(k - 1, total_sentences(sents, cleaned))
    IN [raised   |-> ts.raised,
        score    |-> 400 * ts.num * (ScoreDen(topics) \div ts.den)
                     + ScoreDen(topics)
                       * (content_density(sentence) + pos
                          + question_bonus(sentence) + future_bonus(sentence)
                          - length_penalty(sentence)
                          - incomplete_penalty(sentence)),
        eps      |-> Eps(fp, k),
        sentence |-> sentence,
        i        |-> k - 1,
        position |-> pos]

\* Mutant: the comparison of an ascending sort.
ScoreLess_Flipped(a, b) ==
    b.score < a.score \/ (b.score = a.score /\ b.eps < a.eps)

\* The order of the sort key x[0]: the exact sums first, their roundings
\* where the exact sums are equal.
ScoreLess(a, b) ==
    a.score < b.score \/ (a.score = b.score /\ a.eps < b.eps)

\* Mutant: an entry placed before the entries of equal score.
RECURSIVE InsertDesc_BeforeEqual(_, _)
InsertDesc_BeforeEqual(sorted, x) ==
    IF sorted = <<>> THEN <<x>>
    ELSE IF ~ScoreLess(x, Head(sorted)) THEN <<x>> \o sorted
    ELSE <<Head(sorted)>> \o InsertDesc_BeforeEqual(Tail(sorted), x)

\* x placed after every entry whose score is not below its own.
RECURSIVE InsertDesc(_, _)
InsertDesc(sorted, x) ==
    IF sorted = <<>> THEN <<x>>
    ELSE IF ScoreLess(Head(sorted), x) THEN <<x>> \o sorted
    ELSE <<Head(sorted)>> \o InsertDesc(Tail(sorted), x)

\* Line 115: scored_sentences.sort(key=lambda x: x[0], reverse=True), a
\* stable sort: entries of equal score keep their order.
RECURSIVE SortDesc(_, _)
SortDesc(scored, n) ==
    IF n = 0 THEN <<>> ELSE InsertDesc(SortDesc(scored, n - 1), scored[n])

\* Mutant: every cleaned sentence kept, joined by ". ".
RECURSIVE best_sentence_JoinAll(_)
best_sentence_JoinAll(scored_sentences) ==
    IF Len(scored_sentences) = 1 THEN scored_sentences[1].sentence
    ELSE scored_sentences[1].sentence \o <<".", " ">>
             \o best_sentence_JoinAll(Tail(scored_sentences))

\* Mutant: the three best sentences kept, joined by ". ".
best_sentence_TopThree(scored_sentences) ==
    scored_sentences[1].sentence \o <<".", " ">>
        \o scored_sentences[2].sentence \o <<".", " ">>
        \o scored_sentences[3].sentence

\* Line 119: scored_sentences[0][1]
best_sentence(scored_sentences) == scored_sentences[1].sentence

\* Lines 125-126
EnsureEnding(s) ==
    IF s # <<>> /\ s[Len(s)] \in Terminators THEN s ELSE Append(s, ".")

\* What a call leaves behind: the value returned (or the exception raised)
\* with the path taken, the cleaned sentences, the entries of
\* scored_sentences in the order they were appended, and the index of the
\* entry the summary was built from (-1 when no sentence was selected).
Summary(value, path, cleaned, scored, winner) ==
    [raised |-> "none", value |-> value, path |-> path, cleaned |-> cleaned,
     scored |-> scored, winner |-> winner]

generate_summary(transcript, topics, fp) ==
    LET sents == sentences(transcript) IN
    IF TooFew(sents)
    THEN Summary(transcript, "few_sentences", <<>>, <<>>, -1)
    ELSE LET cleaned == cleaned_sentences(sents) IN
         IF TooFew(cleaned)
         THEN Summary(transcript, "few_cleaned", cleaned, <<>>, -1)
         ELSE LET scored == [k \in 1..Len(cleaned) |->
                               ScoredSentence(sents, cleaned, k, topics, fp)]
                  sorted == SortDesc(scored, Len(scored))
              IN IF \E k \in 1..Len(scored) : scored[k].raised # "none"
                 THEN [Summary(<<>>, "main", cleaned, <<>>, -1)
                         EXCEPT !.raised = "ZeroDivisionError"]
                 ELSE IF sorted = <<>>
                 THEN Summary(transcript, "main", cleaned, scored, -1)
                 ELSE Summary(
                        EnsureEnding(strip(CollapseSpaces(best_sentence(sorted)))),
                        "main", cleaned, scored, sorted[1].i)

\* The transcripts and the topic lists handed to generate_summary.
T_Empty ==
    <<>>

T_Short ==
    <<"S", "h", "o", "r", "t", " ", "t", "e", "x", "t", ".">>

T_OneSentence ==
    <<"T", "h", "i", "s", " ", "i", "s", " ", "a", " ", "l", "o", "n", "g",
      "e", "r", " ", "c", "o", "n", "v", "e", "r", "s", "a", "t", "i", "o",
      "n", " ", "a", "b", "o", "u", "t", " ", "v", "a", "r", "i", "o", "u",
      "s", " ", "t", "o", "p", "i", "c", "s", ".">>

T_TwoLong ==
    <<" ", "W", "e", " ", "p", "l", "a", "n", " ", "t", "h", "e", " ", "t",
      "r", "i", "p", ".", " ", "O", "k", " ", "f", "i", "n", "e", ".", " ",
      "S", "h", "i", "p", "s", " ", "w", "i", "l", "l", " ", "l", "a", "n",
      "d", " ", "s", "o", "o", "n", ".", "\n">>

T_FillersOnly ==
    <<"S", "o", " ", "u", "m", " ", "w", "e", "l", "l", " ", "l", "i", "k",
      "e", " ", "y", "e", "a", "h", " ", "o", "k", " ", "t", "h", "e", "n",
      ".", " ", "T", "h", "e", " ", "s", "h", "i", "p", "s", " ", "l", "a",
      "n", "d", " ", "o", "n", " ", "M", "a", "r", "s", ".", " ", "W", "e",
      " ", "p", "l", "a", "n", " ", "t", "h", "e", " ", "n", "e", "x", "t",
      " ", "l", "a", "u", "n", "c", "h">>

T_SpecExample ==
    <<"W", "e", " ", "d", "i", "s", "c", "u", "s", "s", "e", "d", " ", "t",
      "h", "e", " ", "M", "a", "r", "s", " ", "m", "i", "s", "s", "i", "o",
      "n", " ", "p", "l", "a", "n", "n", "i", "n", "g", ".", " ", "T", "h",
      "e", " ", "S", "t", "a", "r", "s", "h", "i", "p", "s", " ", "w", "i",
      "l", "l", " ", "b", "e", " ", "l", "a", "u", "n", "c", "h", "e", "d",
      " ", "n", "e", "x", "t", " ", "y", "e", "a", "r", ".", " ", "L", "a",
      "n", "d", "i", "n", "g", " ", "o", "n", " ", "M", "a", "r", "s", " ",
      "i", "s", " ", "t", "h", "e", " ", "m", "a", "i", "n", " ", "c", "h",
      "a", "l", "l", "e", "n", "g", "e", ".", " ", "W", "e", " ", "n", "e",
      "e", "d", " ", "t", "o", " ", "e", "n", "s", "u", "r", "e", " ", "s",
      "a", "f", "e", " ", "l", "a", "n", "d", "i", "n", "g", " ", "p", "r",
      "o", "c", "e", "d", "u", "r", "e", "s", ".">>

T_TopicFirst ==
    <<"M", "a", "r", "s", " ", "i", "s", " ", "v", "e", "r", "y", " ", "f",
      "a", "r", " ", "a", "n", "d", ".", " ", "T", "h", "e", " ", "c", "r",
      "e", "w", " ", "w", "i", "l", "l", " ", "a", "l", "s", "o", " ", "u",
      "n", "p", "a", "c", "k", " ", "t", "h", "e", " ", "c", "a", "r", "g",
      "o", " ", "m", "o", "d", "u", "l", "e", "s", ".", " ", "Y", "o", "u",
      " ", "k", "n", "o", "w", ",", " ", "t", "h", "e", " ", "c", "r", "e",
      "w", " ", "s", "l", "e", "e", "p", "s", " ", "l", "i", "k", "e", " ",
      "a", " ", "l", "o", "g", "!">>

T_Packed ==
    <<"t", "h", "e", " ", "c", "r", "e", "w", " ", "e", "a", "t", "s", " ",
      "l", "u", "n", "c", "h", ".", "t", "h", "e", " ", "c", "r", "e", "w",
      " ", "e", "a", "t", "s", " ", "p", "l", "u", "m", "s", "!", "?", "t",
      "h", "e", " ", "c", "r", "e", "w", " ", "e", "a", "t", "s", " ", "l",
      "u", "n", "c", "h">>

T_Dropped ==
    <<"S", "o", " ", "t", "h", "e", " ", "c", "r", "e", "w", " ", "c", "h",
      "e", "c", "k", "s", " ", "t", "h", "e", " ", "s", "h", "i", "p", "s",
      ".", " ", "W", "e", "l", "l", " ", "u", "m", " ", "y", "e", "a", "h",
      " ", "l", "i", "k", "e", " ", "s", "o", " ", "o", "k", ".", " ", "T",
      "h", "e", " ", "c", "r", "e", "w", " ", "c", "h", "e", "c", "k", "s",
      " ", "t", "h", "e", " ", "s", "h", "i", "p", "s", ".", "\n", " ",
      " ", "t", "h", "e", " ", "c", "r", "e", "w", " ", "c", "h", "e", "c",
      "k", "s", " ", "t", "h", "e", " ", "s", "h", "i", "p", "s", ".", " ",
      "T", "h", "e", "n", " ", "t", "h", "e", " ", "c", "r", "e", "w", " ",
      "w", "i", "l", "l", " ", "l", "a", "n", "d">>

T_Rejoined ==
    <<"Y", "o", "u", " ", "u", "m", " ", "k", "n", "o", "w", " ", "t", "h",
      "e", " ", "c", "r", "e", "w", " ", "i", "s", " ", "f", "i", "n", "e",
      ".", " ", "T", "h", "e", " ", "s", "h", "i", "p", "s", " ", "l", "a",
      "n", "d", " ", "o", "n", " ", "M", "a", "r", "s", " ", "t", "o", "d",
      "a", "y", ".", " ", "W", "e", " ", "p", "l", "a", "n", " ", "t", "h",
      "e", " ", "n", "e", "x", "t", " ", "l", "a", "u", "n", "c", "h", " ",
      "s", "o", "o", "n">>

T_Six ==
    <<"r", "e", "d", " ", "r", "o", "v", "e", "r", " ", "r", "o", "l", "l",
      "s", " ", "o", "n", " ", "M", "a", "r", "s", ".", " ", "o", "n", "e",
      " ", "r", "o", "v", "e", "r", " ", "r", "o", "l", "l", "s", " ", "o",
      "n", " ", "M", "a", "r", "s", ".", " ", "t", "w", "o", " ", "r", "o",
      "v", "e", "r", " ", "r", "o", "l", "l", "s", " ", "o", "n", " ", "M",
      "a", "r", "s", ".", " ", "s", "i", "x", " ", "r", "o", "v", "e", "r",
      " ", "r", "o", "l", "l", "s", " ", "o", "n", " ", "M", "a", "r", "s",
      ".", " ", "t", "e", "n", " ", "r", "o", "v", "e", "r", " ", "r", "o",
      "l", "l", "s", " ", "o", "n", " ", "M", "a", "r", "s", ".", " ", "o",
      "l", "d", " ", "r", "o", "v", "e", "r", " ", "r", "o", "l", "l", "s",
      " ", "o", "n", " ", "M", "a", "r", "s", ".">>

Transcripts ==
    {T_Empty,
     T_Short,
     T_OneSentence,
     T_TwoLong,
     T_FillersOnly,
     T_SpecExample,
     T_TopicFirst,
     T_Packed,
     T_Dropped,
     T_Rejoined,
     T_Six}

NoTopics == <<>>

OneTopic == <<<<"m", "a", "r", "s">>>>

ThreeTopics == <<<<"m", "a", "r", "s">>, <<"s", "t", "a", "r", "s", "h", "i", "p", "s">>, <<"l", "a", "n", "d", "i", "n", "g">>>>

MixedTopics == <<<<"C", "r", "e", "w">>, <<>>>>

SummaryTopics == {NoTopics, OneTopic, ThreeTopics, MixedTopics}

\* The roundings a call can meet: none, or one sentence's sum rounded above
\* or below.
SumRoundings(transcript) ==
    LET sents == sentences(transcript) IN
    IF TooFew(sents) \/ TooFew(cleaned_sentences(sents)) THEN {0}
    ELSE (-Len(cleaned_sentences(sents)))..Len(cleaned_sentences(sents))

\* --------------------------------------------------- the caller's objects
\* Mutant: the topics filtered in place (topics[:] = ...).
compute_compatibility_leaves_InPlace(user1_data, user2_data, topics) ==
    [user1 |-> user1_data, user2 |-> user2_data,
     topics |-> [topics EXCEPT !.items = FilterTopics(@)]]

\* What a call of compute_compatibility leaves of the objects it was given:
\* the two records are only read (lines 13-19), the psychometric lists are
\* copied by np.array before any arithmetic (lines 128 and 154), and line 47
\* binds the filtered topics to a new list.
compute_compatibility_leaves(user1_data, user2_data, topics) ==
    [user1 |-> user1_data, user2 |-> user2_data, topics |-> topics]

\* What a call of generate_summary leaves: the transcript is an immutable
\* str, the topics are only iterated (line 69), and the one in-place
\* operation (the sort of line 115) is on the local scored_sentences.
generate_summary_leaves(transcript, topics) ==
    [transcript |-> transcript, topics |-> topics]

\* ------------------------------------------------------------ state machine
\* One call at a time: pc is "idle" between calls and "done" when fn has
\* returned ret for args (fp is the rounding of its cosine computation).
\* args holds the arguments as they were passed; caller holds the objects
\* the caller passed (by reference) as the call left them.
VARIABLES pc, fn, args, fp, ret, caller

vars == <<pc, fn, args, fp, ret, caller>>

Init ==
    /\ pc = "idle"
    /\ fn = "none"
    /\ args = <<>>
    /\ fp = 0
    /\ ret = <<>>
    /\ caller = <<>>

CallComputeCompatibility ==
    /\ pc = "idle"
    /\ \E u1 \in Users1, u2 \in Users2, t \in TopicLists,
          w \in Weights, r \in Rounding :
         /\ args' = [user1 |-> u1, user2 |-> u2, topics |-> t,
                     topic_weight |-> w[1], psych_weight |-> w[2]]
         /\ fp' = r
         /\ ret' = compute_compatibility(u1, u2, t, w[1], w[2], r)
         /\ caller' = compute_compatibility_leaves(u1, u2, t)
    /\ fn' = "compute_compatibility"
    /\ pc' = "done"

CallInterpretScore ==
    /\ pc = "idle"
    /\ \E s \in GridScores :
         /\ args' = [score |-> s]
         /\ ret' = interpret_score(s)
    /\ fp' = 0
    /\ fn' = "interpret_score"
    /\ caller' = args'
    /\ pc' = "done"

CallNormalizePsychometrics ==
    /\ pc = "idle"
    /\ \E p \in Profiles \cup OtherProfiles :
         /\ args' = [psychometric_data |-> p]
         /\ ret' = normalize_psychometrics(p)
    /\ fp' = 0
    /\ fn' = "normalize_psychometrics"
    /\ caller' = args'
    /\ pc' = "done"

CallResamplePsychometrics ==
    /\ pc = "idle"
    /\ \E p \in Profiles \cup OtherProfiles, n \in 0..MaxTarget :
         /\ args' = [psychometric_data |-> p, target_length |-> n]
         /\ ret' = Returned(resample_psychometrics(NpArray(p), n))
    /\ fp' = 0
    /\ fn' = "resample_psychometrics"
    /\ caller' = args'
    /\ pc' = "done"

\* The vectors handed to the two fusion functions: the first from the arrays
\* of OtherProfiles, the second from the arrays of Profiles.
CallCombineVectors ==
    /\ pc = "idle"
    /\ \E t \in OtherProfiles, p \in Profiles, w \in Weights :
         /\ args' = [topic_vec |-> NpArray(t), psych_vec |-> NpArray(p),
                     topic_weight |-> w[1], psych_weight |-> w[2]]
         /\ ret' = Returned(combine_vectors(NpArray(t), NpArray(p), w[1], w[2]))
    /\ fp' = 0
    /\ fn' = "combine_vectors"
    /\ caller' = args'
    /\ pc' = "done"

CallFuseVectors ==
    /\ pc = "idle"
    /\ \E t \in OtherProfiles, p \in Profiles :
         /\ args' = [topic_vector |-> NpArray(t), psychometric_vector |-> NpArray(p)]
         /\ ret' = Returned(fuse_vectors(NpArray(t), NpArray(p)))
    /\ fp' = 0
    /\ fn' = "fuse_vectors"
    /\ caller' = args'
    /\ pc' = "done"

\* fp is here the rounding of the sums of line 111.
CallGenerateSummary ==
    /\ pc = "idle"
    /\ \E t \in Transcripts, tp \in SummaryTopics :
         \E r \in SumRoundings(t) :
            /\ args' = [transcript |-> t, topics |-> tp]
            /\ fp' = r
            /\ ret' = generate_summary(t, tp, r)
            /\ caller' = generate_summary_leaves(t, tp)
    /\ fn' = "generate_summary"
    /\ pc' = "done"

Return ==
    /\ pc = "done"
    /\ pc' = "idle"
    /\ fn' = "none"
    /\ args' = <<>>
    /\ fp' = 0
    /\ ret' = <<>>
    /\ caller' = <<>>

Next ==
    \/ CallComputeCompatibility
    \/ CallInterpretScore
    \/ CallNormalizePsychometrics
    \/ CallResamplePsychometrics
    \/ CallCombineVectors
    \/ CallFuseVectors
    \/ CallGenerateSummary
    \/ Return

Spec == Init /\ [][Next]_vars

\* ------------------------------------------------------------------ claims
Done(f) == pc = "done" /\ fn = f

DifferentIds == args.user1.id # args.user2.id
BothPresent == args.user1.has /\ args.user2.has
EitherEmpty == args.user1.psych.vals = <<>> \/ args.user2.psych.vals = <<>>
NegativeWeight == args.topic_weight < 0 \/ args.psych_weight < 0

\* Element i of a list, as a fraction: ListNum(l, i) / ListDen(l).
ListDen(l) == IF l.isInt THEN 1 ELSE 2
IsConstantList(l) == \A i \in 1..Len(l.vals) : l.vals[i] = l.vals[1]

\* C1: a call of compute_compatibility with two records of the same id
\* returns score 1.0 and "Identical users ...", whatever else it is given.
C1_IdenticalUsers ==
    (Done("compute_compatibility") /\ ~DifferentIds)
        => /\ ret.raised = "none"
           /\ ret.score = FOne
           /\ ret.text = "Identical users (perfect match)"

C1_Witness ==
    /\ Done("compute_compatibility")
    /\ ~DifferentIds
    /\ ~args.user1.has
    /\ args.user2.psych.vals = <<>>
    /\ args.topic_weight < 0
    /\ args.topics.given
    /\ ret.score = FOne

\* C2: with different ids, a record without psychometrics makes the call
\* raise ValueError, also when the other record's list is empty.
C2_MissingRaises ==
    (Done("compute_compatibility") /\ DifferentIds /\ ~BothPresent)
        => ret.raised = "ValueError"

C2_Witness ==
    /\ Done("compute_compatibility")
    /\ DifferentIds
    /\ ~args.user1.has
    /\ args.user2.has
    /\ args.user2.psych.vals = <<>>
    /\ ret.raised = "ValueError"

\* C3: with different ids and both lists present, an empty list on either
\* side gives score 0.0 and "No psychometric data available", whatever the
\* topics and weights (negative weights included).
C3_EmptyProfile ==
    (Done("compute_compatibility") /\ DifferentIds /\ BothPresent /\ EitherEmpty)
        => /\ ret.raised = "none"
           /\ ret.score = FZero
           /\ ret.text = "No psychometric data available"

C3_Witness ==
    /\ Done("compute_compatibility")
    /\ DifferentIds
    /\ BothPresent
    /\ args.user1.psych.vals = <<>>
    /\ args.user2.psych.vals # <<>>
    /\ NegativeWeight
    /\ args.topics.given
    /\ ret.score = FZero
    /\ ret.text = "No psychometric data available"

\* C4: with different ids and both lists present and non-empty, a negative
\* topic_weight or psych_weight makes the call raise, for every such pair of
\* lists (constant lists included).
C4_NegativeWeightRaises ==
    (Done("compute_compatibility") /\ DifferentIds /\ BothPresent
        /\ ~EitherEmpty /\ NegativeWeight)
        => ret.raised = "ValueError"

\* C5: every score compute_compatibility returns lies in [0.0, 1.0]; the
\* clamp of line 76 sends a value below 0 to 0.0, a value above 1 to 1.0 and
\* leaves the others alone (checked on every score of the grid handed to
\* interpret_score).
InUnit(s) ==
    /\ s.num >= 0
    /\ s.num * s.num <= s.rad
    /\ (s.num = 0 => s.eps >= 0)
    /\ (s.num * s.num = s.rad => s.eps <= 0)

GridBelowZero(s) == s.num < 0 \/ (s.num = 0 /\ s.eps < 0)
GridAboveOne(s) ==
    s.num > TenthDen * GridSub \/ (s.num = TenthDen * GridSub /\ s.eps > 0)

C5_ScoreInUnitRange ==
    /\ (Done("compute_compatibility") /\ ret.raised = "none") => InUnit(ret.score)
    /\ Done("interpret_score") =>
         LET c == Clip(args.score) IN
         /\ InUnit(c)
         /\ GridBelowZero(args.score) => c = FZero
         /\ GridAboveOne(args.score) => c = FOne
         /\ (~GridBelowZero(args.score) /\ ~GridAboveOne(args.score)) => c = args.score

\* Two equal non-constant lists under different ids, the cosine rounded up
\* past 1: the clamp returns exactly 1.0.
C5_Witness ==
    /\ Done("compute_compatibility")
    /\ DifferentIds
    /\ BothPresent
    /\ args.user1.psych = args.user2.psych
    /\ ~IsConstantList(args.user1.psych)
    /\ ~NegativeWeight
    /\ fp = 1
    /\ ret.raised = "none"
    /\ ret.score = FOne

\* C6: with different ids, the call with the two users swapped (same topics,
\* weights and rounding) has the same outcome: the same score and
\* interpretation, or the same error.
C6_Symmetric ==
    (Done("compute_compatibility") /\ DifferentIds)
        => ret = compute_compatibility(args.user2, args.user1, args.topics,
                                       args.topic_weight, args.psych_weight, fp)

C6_Witness ==
    /\ Done("compute_compatibility")
    /\ DifferentIds
    /\ BothPresent
    /\ Len(args.user1.psych.vals) # Len(args.user2.psych.vals)
    /\ ~IsConstantList(args.user1.psych)
    /\ ~IsConstantList(args.user2.psych)
    /\ args.topics.given
    /\ ret.raised = "none"
    /\ ret.score.num > 0
    /\ ret.score.num * ret.score.num < ret.score.rad

\* C7: interpret_score gives each score the band of the largest of the
\* lower bounds 0.9, 0.8, 0.7, 0.6, 0.4, 0.2 it reaches (inclusive), "Very
\* low" below 0.2, and a larger score never gets a lower band.
Bands ==
    << "Very low compatibility - Minimal match",
       "Low compatibility - Poor match",
       "Somewhat compatible - Weak match",
       "Moderately compatible - Decent match",
       "Very compatible - Good match",
       "Highly compatible - Strong match",
       "Exceptionally compatible - Perfect match" >>

LowerBounds == <<0, 2, 4, 6, 7, 8, 9>>

BandRank(text) == CHOOSE i \in 1..Len(Bands) : Bands[i] = text

\* The grid score s is at least t tenths.
GridGe(s, t) == s.num > t * GridSub \/ (s.num = t * GridSub /\ s.eps >= 0)

GridLe(s1, s2) == s1.num < s2.num \/ (s1.num = s2.num /\ s1.eps <= s2.eps)

ExpectedBand(s) ==
    CHOOSE i \in 1..Len(Bands) :
        /\ i = 1 \/ GridGe(s, LowerBounds[i])
        /\ \A j \in (i + 1)..Len(Bands) : ~GridGe(s, LowerBounds[j])

C7_InterpretBands ==
    Done("interpret_score") =>
        /\ ret \in {Bands[i] : i \in 1..Len(Bands)}
        /\ ret = Bands[ExpectedBand(args.score)]
        /\ \A s2 \in GridScores :
              GridLe(args.score, s2) => BandRank(interpret_score(s2)) >= BandRank(ret)

\* The boundary 0.9 itself falls in the highest band.
C7_Witness ==
    /\ Done("interpret_score")
    /\ args.score.num = 9 * GridSub
    /\ args.score.eps = 0
    /\ ret = "Exceptionally compatible - Perfect match"

\* C8: normalize_psychometrics of a non-empty list of identical values
\* returns a vector of the same length with 0.5 in every entry, for lists of
\* whole numbers as for lists of floats.
C8_ConstantGivesHalf ==
    (Done("normalize_psychometrics")
        /\ args.psychometric_data.vals # <<>>
        /\ IsConstantList(args.psychometric_data))
        => /\ ret.raised = "none"
           /\ Len(ret.value.num) = Len(args.psychometric_data.vals)
           /\ \A i \in 1..Len(ret.value.num) : 2 * ret.value.num[i] = ret.value.den

\* C9: resample_psychometrics(v, n) returns a vector of length n.
C9_ResampleLength ==
    Done("resample_psychometrics") =>
        /\ ret.raised = "none"
        /\ Len(ret.value.num) = args.target_length

\* An input longer than the target, interpolated down.
C9_Witness ==
    /\ Done("resample_psychometrics")
    /\ Len(args.psychometric_data.vals) > args.target_length
    /\ args.target_length >= 2
    /\ Len(ret.value.num) = args.target_length

\* C10: resample_psychometrics returns an input of the target length with
\* its values unchanged; otherwise an empty input gives 0.5 in every slot;
\* otherwise a single-value input gives that value in every slot.
C10_ResampleSpecialCases ==
    Done("resample_psychometrics") =>
        LET l == args.psychometric_data
            n == args.target_length
            v == ret.value
        IN /\ Len(l.vals) = n =>
                /\ Len(v.num) = n
                /\ \A i \in 1..n : v.num[i] * ListDen(l) = l.vals[i] * v.den
           /\ (Len(l.vals) = 0 /\ n # 0) =>
                /\ Len(v.num) = n
                /\ \A i \in 1..n : 2 * v.num[i] = v.den
           /\ (Len(l.vals) = 1 /\ n # 1) =>
                /\ Len(v.num) = n
                /\ \A i \in 1..n : v.num[i] * ListDen(l) = l.vals[1] * v.den

\* resample_psychometrics([], 5) is five times 0.5.
C10_Witness ==
    /\ Done("resample_psychometrics")
    /\ args.psychometric_data.vals = <<>>
    /\ args.target_length = MinDims
    /\ Len(ret.value.num) = MinDims
    /\ \A i \in 1..MinDims : 2 * ret.value.num[i] = ret.value.den

\* C11: fusion concatenates without length matching: the fused vector has
\* len(topic) + len(psych) entries, first the topic entries (times the topic
\* weight in combine_vectors, as given in fuse_vectors), then the
\* psychometric entries (times the psychometric weight in combine_vectors),
\* each part in its original order.
C11_FusionLayout ==
    /\ Done("combine_vectors") =>
         LET t == args.topic_vec
             p == args.psych_vec
             v == ret.value
         IN /\ Len(v.num) = Len(t.num) + Len(p.num)
            /\ \A i \in 1..Len(t.num) :
                 v.num[i] * WeightDen * t.den = args.topic_weight * t.num[i] * v.den
            /\ \A j \in 1..Len(p.num) :
                 v.num[Len(t.num) + j] * WeightDen * p.den
                     = args.psych_weight * p.num[j] * v.den
    /\ Done("fuse_vectors") =>
         LET t == args.topic_vector
             p == args.psychometric_vector
             v == ret.value
         IN /\ Len(v.num) = Len(t.num) + Len(p.num)
            /\ \A i \in 1..Len(t.num) : v.num[i] * t.den = t.num[i] * v.den
            /\ \A j \in 1..Len(p.num) :
                 v.num[Len(t.num) + j] * p.den = p.num[j] * v.den

\* Two non-constant vectors of different lengths under different weights.
C11_Witness ==
    /\ Done("combine_vectors")
    /\ Len(args.topic_vec.num) = 2
    /\ Len(args.psych_vec.num) = 3
    /\ args.topic_vec.num[1] # args.topic_vec.num[2]
    /\ args.psych_vec.num[1] # args.psych_vec.num[3]
    /\ args.topic_weight = 1
    /\ args.psych_weight = 2
    /\ Len(ret.value.num) = 5

\* C12: for two users of different ids with present, non-empty lists and
\* non-negative weights, the call returns the psychometric-only result (that
\* of topics = None) and raises nothing when topics is None, when it is the
\* empty list, when every topic is blank after trimming, and when the topics
\* give the vectorizer no term (the degenerate input of the all-zero topic
\* vector).
NoTopicTerm(t) == Tokenize(Join(FilterTopics(t.items)), <<>>) = <<>>

TopicFallbackCase(t) ==
    \/ ~t.given
    \/ t.items = <<>>
    \/ FilterTopics(t.items) = <<>>
    \/ NoTopicTerm(t)

C12_TopicFallbacks ==
    (Done("compute_compatibility") /\ DifferentIds /\ BothPresent
        /\ ~EitherEmpty /\ ~NegativeWeight /\ TopicFallbackCase(args.topics))
        => /\ ret.raised = "none"
           /\ ret = compute_compatibility(args.user1, args.user2, None,
                                          args.topic_weight, args.psych_weight, fp)

\* The number of components the topic vector contributes to each operand:
\* the vocabulary size when the topics reach combine_vectors, 0 otherwise.
TopicDims(t) ==
    IF TopicFallbackCase(t) THEN 0
    ELSE Len(vectorize_topics(FilterTopics(t.items)).value.num)

CommonLength ==
    Max2(Max2(Len(args.user1.psych.vals), Len(args.user2.psych.vals)), MinDims)

\* C18: whenever compute_compatibility reaches cosine_similarity, both
\* operands have the same length: max(len(A), len(B), 5) for the resampled
\* psychometric vectors, plus the topic-vector length when topics are fused;
\* so the cosine call never fails on a dimension mismatch.
C18_CommonLength ==
    (Done("compute_compatibility") /\ ret.dims # <<>>)
        => /\ ret.raised = "none"
           /\ ret.dims = <<CommonLength + TopicDims(args.topics),
                           CommonLength + TopicDims(args.topics)>>
           /\ ret.dims[1] >= MinDims

\* Profiles of lengths 3 and 6 fused with a non-empty topic vector.
C18_Witness ==
    /\ Done("compute_compatibility")
    /\ Len(args.user1.psych.vals) = 3
    /\ Len(args.user2.psych.vals) = 6
    /\ TopicDims(args.topics) > 0
    /\ ret.dims = <<6 + TopicDims(args.topics), 6 + TopicDims(args.topics)>>

\* A short pair of profiles is stretched to the floor of MinDims.
C18_WitnessFloor ==
    /\ Done("compute_compatibility")
    /\ Len(args.user1.psych.vals) < MinDims
    /\ Len(args.user2.psych.vals) < MinDims
    /\ ret.dims = <<MinDims, MinDims>>

\* ------------------------------------------------- claims: generate_summary
\* The sentences of the transcript of the call, before and after cleaning.
SplitSurvivors == sentences(args.transcript)
CleanSurvivors == cleaned_sentences(SplitSurvivors)
OnMainPath == Len(SplitSurvivors) > 2 /\ Len(CleanSurvivors) > 2

\* C13: generate_summary returns the transcript itself, character for
\* character, whenever at most 2 segments longer than 10 characters survive
\* the split, and whenever at most 2 segments longer than 15 characters
\* survive the filler removal; "" gives "" and "Short text." gives itself.
C13_EarlyExitVerbatim ==
    Done("generate_summary") =>
        /\ (Len(SplitSurvivors) <= 2 \/ Len(CleanSurvivors) <= 2)
               => (ret.raised = "none" /\ ret.value = args.transcript)
        /\ args.transcript = T_Empty => ret.value = <<>>
        /\ args.transcript = T_Short => ret.value = T_Short

\* Three segments survive the split and only two the filler removal.
C13_Witness ==
    /\ Done("generate_summary")
    /\ Len(SplitSurvivors) = 3
    /\ Len(CleanSurvivors) = 2
    /\ ret.value = args.transcript

\* Two segments survive the split of a transcript that starts and ends
\* with whitespace, which is returned untrimmed.
C13_WitnessUntrimmed ==
    /\ Done("generate_summary")
    /\ Len(SplitSurvivors) = 2
    /\ IsSpace(args.transcript[1])
    /\ IsSpace(args.transcript[Len(args.transcript)])
    /\ ret.value = args.transcript

\* The characters of the transcripts, and the period a summary can end with.
SummaryChars == UNION {Chars(t) : t \in Transcripts} \cup {"."}

\* C14: generate_summary never fails: for every transcript (the empty one
\* included) and every topic list (the empty one included) it returns a
\* string.
C14_NeverFails ==
    Done("generate_summary") =>
        /\ ret.raised = "none"
        /\ ret.value \in Seq(SummaryChars)

\* The sentences of a transcript scored with an empty topic list.
C14_Witness ==
    /\ Done("generate_summary")
    /\ args.topics = <<>>
    /\ OnMainPath
    /\ Len(ret.scored) = Len(CleanSurvivors)
    /\ ret.raised = "none"

\* C15: when more than 2 cleaned segments survive, the summary returned,
\* its appended period included, is no longer than the transcript.
C15_SummaryNoLonger ==
    (Done("generate_summary") /\ OnMainPath)
        => Len(ret.value) <= Len(args.transcript)

\* A summary that is a cleaned sentence with a period appended.
C15_Witness ==
    /\ Done("generate_summary")
    /\ OnMainPath
    /\ \E k \in 1..Len(CleanSurvivors) :
          ret.value = Append(CleanSurvivors[k], ".")
    /\ Len(ret.value) < Len(args.transcript)

\* Some supplied topic occurs in the text, letter case ignored.
HasTopic(text) ==
    \E t \in 1..Len(args.topics) :
        Contains(lower(text), lower(args.topics[t]))

\* C16 as stated: when topics are supplied and some cleaned segment
\* contains a supplied topic, the summary of the main path contains a
\* supplied topic (letter case ignored).
C16_TopicInSummary ==
    (/\ Done("generate_summary")
     /\ OnMainPath
     /\ args.topics # <<>>
     /\ \E k \in 1..Len(CleanSurvivors) : HasTopic(CleanSurvivors[k]))
        => HasTopic(ret.value)

\* The entry a of scored_sentences has a greater sort key than b.
Beats(a, b) == a.score > b.score \/ (a.score = b.score /\ a.eps > b.eps)

\* The entry of the greatest score, the earliest of them when several
\* entries share it.
IsTop(scored, w) ==
    /\ \A k \in 1..Len(scored) : ~Beats(scored[k], scored[w])
    /\ \A k \in 1..(w - 1) : Beats(scored[w], scored[k])

\* C16, amended: the summary of the main path contains a supplied topic
\* when the cleaned segment of the greatest score (the earliest of them)
\* contains one, as for the transcript and the topics of the example; a
\* topic in some other cleaned segment is not enough.
C16_TopTopicInSummary ==
    (/\ Done("generate_summary")
     /\ OnMainPath
     /\ args.topics # <<>>)
        => /\ \A w \in 1..Len(ret.scored) :
                (IsTop(ret.scored, w) /\ HasTopic(ret.scored[w].sentence))
                    => HasTopic(ret.value)
           /\ (args.transcript = T_SpecExample /\ args.topics = ThreeTopics)
                => HasTopic(ret.value)

\* The example: the summary is the third sentence, which names two topics,
\* while the last sentence has the least score.
C16_Witness ==
    /\ Done("generate_summary")
    /\ args.transcript = T_SpecExample
    /\ args.topics = ThreeTopics
    /\ IsTop(ret.scored, 3)
    /\ HasTopic(ret.scored[3].sentence)
    /\ ret.value = Append(ret.scored[3].sentence, ".")

\* C19: on the main path the summary is built from a cleaned segment whose
\* total score is the greatest, and from the one of the smallest index when
\* several segments share the greatest score.
C19_BestEarliest ==
    (Done("generate_summary") /\ OnMainPath)
        => /\ ret.winner + 1 \in 1..Len(ret.scored)
           /\ IsTop(ret.scored, ret.winner + 1)
           /\ ret.scored[ret.winner + 1].i = ret.winner
           /\ ret.scored[ret.winner + 1].sentence = CleanSurvivors[ret.winner + 1]
           /\ ret.value = Append(CleanSurvivors[ret.winner + 1], ".")

\* Two different segments share the greatest score, and the summary is the
\* earlier one.
C19_Witness ==
    /\ Done("generate_summary")
    /\ OnMainPath
    /\ \E k \in (ret.winner + 2)..Len(ret.scored) :
          /\ ~Beats(ret.scored[ret.winner + 1], ret.scored[k])
          /\ ret.scored[k].sentence # ret.scored[ret.winner + 1].sentence
    /\ ret.value = Append(CleanSurvivors[ret.winner + 1], ".")

\* The position score the statement gives to index i among n segments, in
\* thousandths.
ExpectedPosition(i, n) ==
    IF 10 * i < n THEN 150
    ELSE IF 10 * i > 8 * n THEN 150
    ELSE IF 3 * n <= 10 * i /\ 10 * i <= 7 * n THEN 250
    ELSE 100

\* C20: the position score of the cleaned segment at index i among the n
\* cleaned segments is 0.15 when i < 0.1 n, else 0.15 when i > 0.8 n, else
\* 0.25 when 0.3 n <= i <= 0.7 n, else 0.1; index 0 gets 0.15; n counts the
\* cleaned segments, not the segments of the split.
C20_PositionScore ==
    (Done("generate_summary") /\ OnMainPath)
        => /\ Len(ret.scored) = Len(CleanSurvivors)
           /\ \A k \in 1..Len(ret.scored) :
                /\ ret.scored[k].position
                      = ExpectedPosition(k - 1, Len(CleanSurvivors))
                /\ ret.scored[k].position \in {150, 250, 100}
           /\ ret.scored[1].position = 150

\* A segment was dropped by the cleaning, and a position score differs from
\* the one the count before cleaning would give.
C20_Witness ==
    /\ Done("generate_summary")
    /\ OnMainPath
    /\ Len(SplitSurvivors) > Len(CleanSurvivors)
    /\ \E k \in 1..Len(ret.scored) :
          /\ ret.scored[k].position = ExpectedPosition(k - 1, Len(CleanSurvivors))
          /\ ret.scored[k].position # ExpectedPosition(k - 1, Len(SplitSurvivors))

\* All three values are given, the last segment in the closing band.
C20_WitnessAllBands ==
    /\ Done("generate_summary")
    /\ OnMainPath
    /\ {ret.scored[k].position : k \in 1..Len(ret.scored)} = {150, 250, 100}
    /\ ret.scored[Len(ret.scored)].position = 150

C17_WitnessSummary ==
    /\ Done("generate_summary")
    /\ OnMainPath
    /\ ret.winner > 0
    /\ caller = args

\* Some filler occurs in the text as a whole word, letter case ignored.
HasFiller(text) ==
    \E i \in 1..Len(text) : \E f \in 1..Len(Fillers) :
        MatchAt(text, i, Fillers[f])

\* C21: after the cleaning step no cleaned segment contains a filler as a
\* whole word (letter case ignored), the fillers included that the removal
\* of another filler and the collapse of whitespace bring together.
C21_NoFillerLeft ==
    Done("generate_summary") =>
        \A k \in 1..Len(ret.cleaned) : ~HasFiller(ret.cleaned[k])

\* The text has no whitespace at either end, and no whitespace but single
\* spaces inside.
IsTidy(text) ==
    /\ text # <<>>
    /\ text[1] # " " /\ text[Len(text)] # " "
    /\ \A i \in 1..Len(text) : IsSpace(text[i]) => text[i] = " "
    /\ \A i \in 1..(Len(text) - 1) : ~(text[i] = " " /\ text[i + 1] = " ")

\* The score of a cleaned segment without any question bonus, in the units
\* of ScoredSentence.
ScoreWithoutQuestion(s, k) ==
    LET sentence == s.sentence
        future == IF \E w \in FutureWords : Contains(lower(sentence), w)
                  THEN 100 ELSE 0
    IN (IF args.topics = <<>> THEN 0
        ELSE 400 * topic_matches(sentence, args.topics))
       + ScoreDen(args.topics)
         * (content_density(sentence) + s.position + future
            - length_penalty(sentence) - incomplete_penalty(sentence))

C22_WitnessFuture ==
    /\ Done("generate_summary")
    /\ OnMainPath
    /\ \E i \in 1..(Len(args.transcript) - 1) :
          IsSpace(args.transcript[i]) /\ IsSpace(args.transcript[i + 1])
    /\ \E k \in 1..Len(ret.scored) :
          future_bonus(ret.scored[k].sentence) = 100
    /\ IsTidy(ret.scored[ret.winner + 1].sentence)

\* C23: generate_summary is idempotent: summarising the summary of a
\* transcript with the same topics gives that summary again, whatever the
\* rounding of the second call.
C23_Idempotent ==
    (Done("generate_summary") /\ ret.raised = "none")
        => \A f \in SumRoundings(ret.value) :
              /\ generate_summary(ret.value, args.topics, f).raised = "none"
              /\ generate_summary(ret.value, args.topics, f).value = ret.value

\* A summary of the main path, different from its transcript, which the
\* second call returns by the early exit.
C23_Witness ==
    /\ Done("generate_summary")
    /\ OnMainPath
    /\ ret.value # args.transcript
    /\ generate_summary(ret.value, args.topics, 0).path = "few_sentences"
    /\ generate_summary(ret.value, args.topics, 0).value = ret.value

\* The score is 1.0, or the floating-point number next to it that the
\* rounding of the cosine can give.
IsOneRounded(s) == ~s.nan /\ s.num > 0 /\ s.num * s.num = s.rad

\* C24: with topics that give a non-zero topic vector, topic_weight > 0 and
\* psych_weight = 0, compute_compatibility returns the score 1.0 (up to
\* the rounding of the cosine) and the band "Exceptionally compatible" for
\* every two different users with present, non-empty profiles, whatever
\* the psychometric values.
C24_TopicOnlyPerfect ==
    (/\ Done("compute_compatibility")
     /\ DifferentIds /\ BothPresent /\ ~EitherEmpty
     /\ ~TopicFallbackCase(args.topics)
     /\ args.topic_weight > 0 /\ args.psych_weight = 0)
        => /\ ret.raised = "none"
           /\ IsOneRounded(ret.score)
           /\ ret.text = "Exceptionally compatible - Perfect match"

====
